---- MODULE Spec2Model ----
(***************************************************************************)
(* Model of manage-opengrok-test.sh (src/extension.js, lines 78-762): the  *)
(* CLI that creates, tracks, restarts and destroys named OpenGrok test     *)
(* instances, each backed by a multipass VM and a record under STATE_DIR.  *)
(*                                                                         *)
(* One CLI invocation is one action.  The state is what survives an        *)
(* invocation (records, VMs, dependency cache, wall clock) plus what the   *)
(* last invocation showed to the operator (exit code, output, and the log  *)
(* of side-effecting steps it issued).                                     *)
(***************************************************************************)
EXTENDS Integers, Sequences, FiniteSets, TLC

\* ---------------------------------------------------------------- bounds
\* The wall clock (date -u) takes the values 0..MaxTime.
MaxTime == 1

\* ------------------------------------------------------- program constants
DEFAULT_MEMORY == "4G"
DEFAULT_DISK == "20G"
DEFAULT_CPUS == "2"
DEFAULT_PORT == "8080"
DEFAULT_UBUNTU == "22.04"
max_attempts == 60

\* ------------------------------------------------------------ input sets
\* Instance names the operator uses, in the order the shell's glob
\* "$STATE_DIR"/*/config.json lists their directories.
NameSeq == <<"a", "b">>
Names == { NameSeq[i] : i \in 1..Len(NameSeq) }
\* The name argument of an invocation; "" is a missing name.
NameArgs == Names \cup {""}
\* Directories that exist on the host.
HostDirs == {"/w/p", "/w/git@d"}
\* The working directory of the invocation.
Cwd == "/w"
\* Names mktemp -d may hand out.
TmpDirs == {"/tmp/tmp.A"}
\* Argument vectors given to start after the name.
StartArgvs ==
    { <<>>,
      <<"--port", "9000">>,
      <<"--no-cache">>,
      <<"p">>,
      <<"/w/p", "--port", "9000">>,
      <<"https://h/r.git", "--depth", "1", "--memory", "8G">>,
      <<"git@d">>,
      <<"ssh://h/r">>,
      <<"nope">>,
      <<"--bogus">>,
      <<"--port">> }
\* Exit statuses a failing multipass or downloader command returns.
BackendFailCodes == {1, 2}
\* Index of the first curl attempt that the service answers (max_attempts:
\* it answers none of the attempts made).
ProbeInputs == {0, 59, 60}
\* The backend and downloader commands an invocation may see fail.
BackendOps ==
    { "download", "launch", "exec_mkdir_scripts", "transfer_download_script",
      "transfer_install_script", "exec_mkdir_deps", "transfer_deps",
      "exec_mkdir_source", "transfer_source", "mount", "exec_cp",
      "exec_git_clone", "exec_install", "start", "stop", "delete",
      "exec_reindex", "shell", "exec_logs" }
\* Which commands fail in one invocation: none, one, or the direct copy of
\* the source tree together with one step of its fallback.
FailSets ==
    { {} } \cup { {o} : o \in BackendOps }
        \cup { {"transfer_source", "mount"}, {"transfer_source", "exec_cp"} }

\* ------------------------------------------------------------------ state
VARIABLES
    records,    \* STATE_DIR/<name>/config.json, per name (NoRecord: no directory)
    vms,        \* multipass state of each VM: "Absent", "Running" or "Stopped"
    cache,      \* CACHE_DIR: "absent", "incomplete" (no MANIFEST.txt) or "complete"
    now,        \* wall clock
    cmd,        \* verb of the last invocation ("" before the first)
    arg,        \* its name argument
    cmdArgs,    \* the arguments that followed the name (start only)
    exitCode,   \* its exit status
    out,        \* what it printed
    ops,        \* the side-effecting steps it issued, in order
    procs       \* the invocations in progress when two run at once (else none)

vars == <<records, vms, cache, now, cmd, arg, cmdArgs, exitCode, out, ops, procs>>

NoRecord ==
    [ name |-> "", vm_name |-> "", codebase_type |-> "", codebase_path |-> "",
      port |-> "", memory |-> "", disk |-> "", cpus |-> "",
      ubuntu_version |-> "", created |-> -1, git_depth |-> "", git_branch |-> "" ]

\* What an invocation prints: the message, the instance it names, the port
\* and the status it shows, and the rows of a table.
Out(text, who, port, status) ==
    [ text |-> text, who |-> who, port |-> port, status |-> status, rows |-> <<>> ]

NoOut == Out("", "", "", "")

\* die "...": the message on stderr, exit status 1.
Die(text, who) == Out("ERROR: " \o text, who, "", "")

\* One logged step: the operation, the VM it targets ("" for host steps),
\* whether it succeeded, and (for the remote install) the project name it
\* was given.
Op(op, vm, ok) == [ op |-> op, vm |-> vm, ok |-> ok, project |-> "" ]

\* ----------------------------------------------------------------- helpers
\* Mutant: every instance is given the same VM name.
get_vm_name_Shared(name) == "opengrok-test"

get_vm_name(name) == "opengrok-test-" \o name

VmNames == { get_vm_name(n) : n \in Names }

\* [ -d "$STATE_DIR/$name" ]
InstanceDirExists(recs, name) == name \in Names /\ recs[name] # NoRecord

\* Mutant: the grep for "Running" never matches.
InfoRunning_Never(v, vm_name) == FALSE

\* multipass info "$vm_name" 2>/dev/null | grep -q "Running"
InfoRunning(v, vm_name) == vm_name \in VmNames /\ v[vm_name] = "Running"

\* multipass info "$vm_name" 2>/dev/null | grep -q "Stopped"
InfoStopped(v, vm_name) == vm_name \in VmNames /\ v[vm_name] = "Stopped"

\* multipass info "$vm_name" &>/dev/null
InfoSucceeds(v, vm_name) == vm_name \in VmNames /\ v[vm_name] # "Absent"

\* jq -r '.port' on the document save_instance_state wrote: the number's
\* text for a JSON number, nothing (a parse error) for anything else.
\* The ports used here are plain decimal literals.
JsonNumbers == {"8080", "9000"}

JqPort(rec) == IF rec.port \in JsonNumbers THEN rec.port ELSE ""

\* "${s:0:k}"
Prefix(s, k) == SubSeq(s, 1, IF Len(s) < k THEN Len(s) ELSE k)

StartsWith(s, p) == Prefix(s, Len(p)) = p

EndsWith(s, p) == Len(s) >= Len(p) /\ SubSeq(s, Len(s) - Len(p) + 1, Len(s)) = p

\* --------------------------------------------------------- option parsing
DefaultOptions ==
    [ memory |-> DEFAULT_MEMORY, disk |-> DEFAULT_DISK, cpus |-> DEFAULT_CPUS,
      port |-> DEFAULT_PORT, ubuntu |-> DEFAULT_UBUNTU, no_cache |-> "no",
      git_depth |-> "", git_branch |-> "", err |-> "" ]

ValueFlags ==
    {"--memory", "--disk", "--cpus", "--port", "--ubuntu", "--depth", "--branch"}

SetOption(o, flag, value) ==
    CASE flag = "--memory" -> [o EXCEPT !.memory = value]
      [] flag = "--disk"   -> [o EXCEPT !.disk = value]
      [] flag = "--cpus"   -> [o EXCEPT !.cpus = value]
      [] flag = "--port"   -> [o EXCEPT !.port = value]
      [] flag = "--ubuntu" -> [o EXCEPT !.ubuntu = value]
      [] flag = "--depth"  -> [o EXCEPT !.git_depth = value]
      [] flag = "--branch" -> [o EXCEPT !.git_branch = value]

\* The while/case loop over the remaining arguments.  A value flag with no
\* value reads the unset "$2" and the shell aborts (set -u).
RECURSIVE ParseOptions(_, _)
ParseOptions(argv, o) ==
    IF argv = <<>> THEN o
    ELSE IF Head(argv) = "--no-cache"
         THEN ParseOptions(Tail(argv), [o EXCEPT !.no_cache = "yes"])
    ELSE IF Head(argv) \in ValueFlags
         THEN IF Len(argv) < 2
              THEN [o EXCEPT !.err = "unbound variable"]
              ELSE ParseOptions(SubSeq(argv, 3, Len(argv)),
                                SetOption(o, Head(argv), argv[2]))
    ELSE [o EXCEPT !.err = "Unknown option"]

\* local codebase="${1:-}": the first argument unless it is empty or an option.
CodebaseArg(argv) ==
    IF argv # <<>> /\ Head(argv) # "" /\ Prefix(Head(argv), 2) # "--"
    THEN Head(argv) ELSE ""

OptionArgs(argv) ==
    IF argv # <<>> /\ Head(argv) # "" /\ Prefix(Head(argv), 2) # "--"
    THEN Tail(argv) ELSE argv

\* ----------------------------------------------------- codebase resolver
\* "$(cd "$codebase" && pwd)"
AbsPath(p) == IF StartsWith(p, "/") THEN p ELSE Cwd \o "/" \o p

\* [ -d "$codebase" ]
IsDir(p) == p # "" /\ AbsPath(p) \in HostDirs

\* The part of s[1..i] after its last "/", up to i.
RECURSIVE LastComponent(_, _, _)
LastComponent(s, i, end) ==
    IF i = 0 \/ SubSeq(s, i, i) = "/" THEN SubSeq(s, i + 1, end)
    ELSE LastComponent(s, i - 1, end)

\* s without its trailing slashes.
RECURSIVE StripSlashes(_)
StripSlashes(s) ==
    IF Len(s) > 1 /\ EndsWith(s, "/") THEN StripSlashes(SubSeq(s, 1, Len(s) - 1))
    ELSE s

\* basename s [suffix]
basename(s, suffix) ==
    LET t == StripSlashes(s)
        b == IF t = "/" THEN t ELSE LastComponent(t, Len(t), Len(t))
    IN  IF suffix # "" /\ b # suffix /\ EndsWith(b, suffix)
        THEN SubSeq(b, 1, Len(b) - Len(suffix)) ELSE b

\* [[ "$codebase" =~ ^(https?://|git@|ssh://) ]]
IsGitUrl(s) ==
    \/ StartsWith(s, "http://")
    \/ StartsWith(s, "https://")
    \/ StartsWith(s, "git@")
    \/ StartsWith(s, "ssh://")

\* --------------------------------------------------------- demo generator
\* The files create_demo_codebase writes, in program order: the path under
\* the demo directory and the here-document (its lines in the script) that
\* is the file's content.  The here-documents are quoted: nothing in them
\* is expanded.
DemoHeredocs ==
    << << "include/utils.h", "heredoc 222-228" >>,
       << "src/utils.c", "heredoc 233-243" >>,
       << "src/main.c", "heredoc 248-256" >>,
       << "src/server.py", "heredoc 261-276" >>,
       << "src/client.py", "heredoc 281-289" >>,
       << "src/helpers.js", "heredoc 294-300" >>,
       << "src/app.js", "heredoc 305-323" >>,
       << "tests/test_utils.c", "heredoc 328-340" >>,
       << "tests/test_server.py", "heredoc 345-359" >> >>

\* The directory after the cat commands 1..k of the generator have run in
\* it: each writes (or overwrites) one file.
RECURSIVE DemoWrites(_, _, _)
DemoWrites(demo_dir, k, expand) ==
    IF k = 0 THEN << >>
    ELSE LET before == DemoWrites(demo_dir, k - 1, expand)
             path   == demo_dir \o "/" \o DemoHeredocs[k][1]
             text   == DemoHeredocs[k][2] \o ( IF expand THEN " in " \o demo_dir ELSE "" )
         IN  [ q \in DOMAIN before \cup {path} |->
                 IF q = path THEN text ELSE before[q] ]

\* Mutant: the here-documents are unquoted and mention $demo_dir.
create_demo_codebase_Expanding(demo_dir) ==
    [ dir |-> demo_dir, files |-> DemoWrites(demo_dir, Len(DemoHeredocs), TRUE) ]

\* create_demo_codebase, demo_dir being what mktemp -d returned: the
\* directory it echoes and the files it has written there.
create_demo_codebase(demo_dir) ==
    [ dir |-> demo_dir, files |-> DemoWrites(demo_dir, Len(DemoHeredocs), FALSE) ]

\* Mutant: the URL pattern is tried before the directory test.
Classify_UrlFirst(codebase, tmp) ==
    IF codebase = ""
    THEN [ type |-> "demo", path |-> create_demo_codebase(tmp).dir, project |-> "demo" ]
    ELSE IF IsGitUrl(codebase)
    THEN [ type |-> "git", path |-> codebase,
           project |-> basename(codebase, ".git") ]
    ELSE IF IsDir(codebase)
    THEN [ type |-> "local", path |-> AbsPath(codebase),
           project |-> basename(AbsPath(codebase), "") ]
    ELSE [ type |-> "", path |-> "", project |-> "" ]

\* The if/elif chain of command_start that determines codebase_type,
\* source_path and project_name; tmp is the directory mktemp -d returns.
Classify(codebase, tmp) ==
    IF codebase = ""
    THEN [ type |-> "demo", path |-> create_demo_codebase(tmp).dir, project |-> "demo" ]
    ELSE IF IsDir(codebase)
    THEN [ type |-> "local", path |-> AbsPath(codebase),
           project |-> basename(AbsPath(codebase), "") ]
    ELSE IF IsGitUrl(codebase)
    THEN [ type |-> "git", path |-> codebase,
           project |-> basename(codebase, ".git") ]
    ELSE [ type |-> "", path |-> "", project |-> "" ]

\* ------------------------------------------------------- readiness prober
\* The while loop of wait_for_opengrok: curl fails on the attempts before
\* okAt and succeeds from okAt on.  Returns the function's exit status.
RECURSIVE wait_loop(_, _)
wait_loop(attempt, okAt) ==
    IF attempt < max_attempts
    THEN IF attempt >= okAt THEN 0 ELSE wait_loop(attempt + 1, okAt)
    ELSE 1

wait_for_opengrok(okAt) == wait_loop(0, okAt)

\* -------------------------------------------------------- port allocator
\* Mutant: a record blocks the port whatever the state of its VM.
PortBlockedBy_AnyStatus(i, port, name, recs, v) ==
    LET rec == recs[NameSeq[i]]
    IN  /\ rec # NoRecord
        /\ rec.port = port
        /\ rec.name # name

\* Whether the record of NameSeq[i] blocks the port for `name`.
PortBlockedBy(i, port, name, recs, v) ==
    LET rec == recs[NameSeq[i]]
    IN  /\ rec # NoRecord
        /\ JqPort(rec) = port
        /\ rec.name # name
        /\ InfoRunning(v, get_vm_name(rec.name))

\* The for loop of check_port_available: the name of the first running
\* owner of the port in glob order, "" when the function returns 0.
\* (With no STATE_DIR the function returns 0 at once: no record, same result.)
RECURSIVE port_scan(_, _, _, _, _)
port_scan(i, port, name, recs, v) ==
    IF i > Len(NameSeq) THEN ""
    ELSE IF PortBlockedBy(i, port, name, recs, v) THEN NameSeq[i]
    ELSE port_scan(i + 1, port, name, recs, v)

\* Mutant: the port check is skipped.
check_port_available_Skipped(port, name, recs, v) == ""

check_port_available(port, name, recs, v) == port_scan(1, port, name, recs, v)

\* ------------------------------------------------------- dependency cache
\* Mutant: the force flag is ignored.
NeedsDownload_IgnoresForce(force, c) == c = "absent" \/ c # "complete"

\* The condition under which ensure_cache runs the downloader.
NeedsDownload(force, c) == force = "yes" \/ c = "absent" \/ c # "complete"

\* CACHE_DIR after ensure_cache; mkdir -p precedes the download.
CacheAfter(force, c, failed) ==
    IF ~NeedsDownload(force, c) THEN c
    ELSE IF failed THEN (IF c = "complete" THEN "complete" ELSE "incomplete")
    ELSE "complete"

\* Mutant: the record is written with the default port.
save_instance_state_DefaultPort(name, codebase_type, codebase_path, o, t) ==
    [ name |-> name, vm_name |-> get_vm_name(name),
      codebase_type |-> codebase_type, codebase_path |-> codebase_path,
      port |-> DEFAULT_PORT, memory |-> o.memory, disk |-> o.disk, cpus |-> o.cpus,
      ubuntu_version |-> o.ubuntu, created |-> t,
      git_depth |-> o.git_depth, git_branch |-> o.git_branch ]

\* ------------------------------------------------------------ state store
save_instance_state(name, codebase_type, codebase_path, o, t) ==
    [ name |-> name, vm_name |-> get_vm_name(name),
      codebase_type |-> codebase_type, codebase_path |-> codebase_path,
      port |-> o.port, memory |-> o.memory, disk |-> o.disk, cpus |-> o.cpus,
      ubuntu_version |-> o.ubuntu, created |-> t,
      git_depth |-> o.git_depth, git_branch |-> o.git_branch ]

\* ------------------------------------------------------------- outcomes
\* What one invocation leaves behind.
Outcome(recs, v, c, code, o, log) ==
    [ recs |-> recs, vms |-> v, cache |-> c, exit |-> code, out |-> o, ops |-> log ]

\* An invocation that changes nothing and issues nothing.
Unchanged(code, o) == Outcome(records, vms, cache, code, o, <<>>)

\* ------------------------------------------------- provisioning pipeline
\* The multipass commands of a fresh provisioning, in program order.  The
\* mount fallback runs only when the direct copy of the source tree failed.
ProvisionSteps(type, fails) ==
    << "launch", "exec_mkdir_scripts", "transfer_download_script",
       "transfer_install_script", "exec_mkdir_deps", "transfer_deps" >>
    \o ( IF type = "git" THEN << "exec_git_clone" >>
         ELSE << "exec_mkdir_source", "transfer_source" >>
              \o ( IF "transfer_source" \in fails
                   THEN << "mount", "exec_cp" >> ELSE << >> ) )
    \o << "exec_install" >>

\* Whether a step exits non-zero.  multipass launch fails when a VM of that
\* name already exists.
StepFails(step, fails, vmExists) ==
    \/ step = "launch" /\ vmExists
    \/ step \in fails

\* Whether the failure of a step ends the invocation (set -e): every failing
\* command does, except the direct copy, whose failure the || catches.
StepAborts(step, fails, vmExists) ==
    StepFails(step, fails, vmExists) /\ step # "transfer_source"

\* The steps executed: up to and including the first that aborts.
RECURSIVE RunSteps(_, _, _)
RunSteps(steps, fails, vmExists) ==
    IF steps = << >> THEN << >>
    ELSE IF StepAborts(Head(steps), fails, vmExists) THEN << Head(steps) >>
    ELSE << Head(steps) >> \o RunSteps(Tail(steps), fails, vmExists)

\* command_start from "Check port availability" on (the fresh path).
Provision(name, codebase, o, fails, rc, tmp, okAt) ==
    LET vm_name  == get_vm_name(name)
        owner    == check_port_available(o.port, name, records, vms)
        cls      == Classify(codebase, tmp)
        log0     == << Op("check_port_available", "", owner = "") >>
        log1     == log0 \o ( IF cls.type = "demo"
                              THEN << Op("create_demo_codebase", "", TRUE) >> ELSE << >> )
        download == NeedsDownload(o.no_cache, cache)
        dlFailed == download /\ "download" \in fails
        cache1   == CacheAfter(o.no_cache, cache, dlFailed)
        log2     == log1 \o ( IF download THEN << Op("download", "", ~dlFailed) >> ELSE << >> )
        vmExists == vms[vm_name] # "Absent"
        steps    == RunSteps(ProvisionSteps(cls.type, fails), fails, vmExists)
        aborted  == StepAborts(steps[Len(steps)], fails, vmExists)
        vms1     == IF StepAborts("launch", fails, vmExists) THEN vms
                    ELSE [vms EXCEPT ![vm_name] = "Running"]
        log3     == log2 \o [ i \in 1..Len(steps) |->
                                [ Op(steps[i], vm_name, ~StepFails(steps[i], fails, vmExists))
                                    EXCEPT !.project = IF steps[i] = "exec_install"
                                                       THEN cls.project ELSE "" ] ]
        rec      == save_instance_state(name, cls.type, cls.path, o, now)
        ready    == wait_for_opengrok(okAt) = 0
    IN  IF owner # ""
        THEN Outcome(records, vms, cache, 1,
                     [ Die("Port already used by running instance", owner)
                         EXCEPT !.port = o.port ], log0)
        ELSE IF cls.type = ""
        THEN Outcome(records, vms, cache, 1, Die("Codebase not found", ""), log0)
        ELSE IF dlFailed
        THEN Outcome(records, vms, cache1, rc, NoOut, log2)
        ELSE IF aborted
        THEN Outcome(records, vms1, cache1, rc, NoOut, log3)
        ELSE Outcome([records EXCEPT ![name] = rec], vms1, cache1,
                     \* the function's last command is
                     \* [ "$codebase_type" = "demo" ] && rm -rf "$source_path"
                     IF cls.type = "demo" THEN 0 ELSE 1,
                     IF ready THEN Out("Instance Ready", name, o.port, "")
                     ELSE Out("WARNING: OpenGrok may not be ready yet", name, "", ""),
                     log3 \o << Op("save_instance_state", "", TRUE),
                                Op("wait_for_opengrok", "", ready) >>
                          \o ( IF cls.type = "demo"
                               THEN << Op("rm_demo_dir", "", TRUE) >> ELSE << >> ))

\* ------------------------------------------------------------- commands
\* What the option loop prints when it stops: die's message for an unknown
\* option, the shell's own message for a value flag with no value.
OptionError(e) ==
    IF e = "Unknown option" THEN Die(e, "") ELSE Out("$2: " \o e, "", "", "")

\* Mutant: no restart branch; a stopped instance is provisioned anew.
StartOutcome_NoRestart(name, args, fails, rc, tmp, okAt) ==
    LET codebase == CodebaseArg(args)
        o        == ParseOptions(OptionArgs(args), DefaultOptions)
        vm_name  == get_vm_name(name)
    IN  IF name = "" THEN Unchanged(1, Die("Usage: start <name>", ""))
        ELSE IF o.err # "" THEN Unchanged(1, OptionError(o.err))
        ELSE IF InstanceDirExists(records, name) /\ InfoRunning(vms, vm_name)
        THEN Unchanged(0, Out("Instance is already running", name, o.port, ""))
        ELSE Provision(name, codebase, o, fails, rc, tmp, okAt)

\* Mutant: the restart branch writes the record again from the arguments.
StartOutcome_RestartSaves(name, args, fails, rc, tmp, okAt) ==
    LET codebase == CodebaseArg(args)
        o        == ParseOptions(OptionArgs(args), DefaultOptions)
        vm_name  == get_vm_name(name)
        cls      == Classify(codebase, tmp)
    IN  IF name = "" THEN Unchanged(1, Die("Usage: start <name>", ""))
        ELSE IF o.err # "" THEN Unchanged(1, OptionError(o.err))
        ELSE IF InstanceDirExists(records, name) /\ InfoRunning(vms, vm_name)
        THEN Unchanged(0, Out("Instance is already running", name, o.port, ""))
        ELSE IF InstanceDirExists(records, name) /\ InfoSucceeds(vms, vm_name)
        THEN IF "start" \in fails
             THEN Outcome(records, vms, cache, rc, NoOut, << Op("start", vm_name, FALSE) >>)
             ELSE Outcome([records EXCEPT ![name] =
                               save_instance_state(name, cls.type, cls.path, o, now)],
                          [vms EXCEPT ![vm_name] = "Running"], cache, 0,
                          Out("Instance restarted", name, o.port, ""),
                          << Op("start", vm_name, TRUE) >>)
        ELSE Provision(name, codebase, o, fails, rc, tmp, okAt)

\* Mutant: an argument error is not noticed; the start goes on.
StartOutcome_NoOptionCheck(name, args, fails, rc, tmp, okAt) ==
    LET codebase == CodebaseArg(args)
        o        == [ ParseOptions(OptionArgs(args), DefaultOptions) EXCEPT !.err = "" ]
        vm_name  == get_vm_name(name)
    IN  IF name = "" THEN Unchanged(1, Die("Usage: start <name>", ""))
        ELSE IF InstanceDirExists(records, name) /\ InfoRunning(vms, vm_name)
        THEN Unchanged(0, Out("Instance is already running", name, o.port, ""))
        ELSE IF InstanceDirExists(records, name) /\ InfoSucceeds(vms, vm_name)
        THEN IF "start" \in fails
             THEN Outcome(records, vms, cache, rc, NoOut, << Op("start", vm_name, FALSE) >>)
             ELSE Outcome(records, [vms EXCEPT ![vm_name] = "Running"], cache, 0,
                          Out("Instance restarted", name, o.port, ""),
                          << Op("start", vm_name, TRUE) >>)
        ELSE Provision(name, codebase, o, fails, rc, tmp, okAt)

StartOutcome(name, args, fails, rc, tmp, okAt) ==
    LET codebase == CodebaseArg(args)
        o        == ParseOptions(OptionArgs(args), DefaultOptions)
        vm_name  == get_vm_name(name)
    IN  IF name = "" THEN Unchanged(1, Die("Usage: start <name>", ""))
        ELSE IF o.err # "" THEN Unchanged(1, OptionError(o.err))
        ELSE IF InstanceDirExists(records, name) /\ InfoRunning(vms, vm_name)
        THEN Unchanged(0, Out("Instance is already running", name, o.port, ""))
        ELSE IF InstanceDirExists(records, name) /\ InfoSucceeds(vms, vm_name)
        THEN IF "start" \in fails
             THEN Outcome(records, vms, cache, rc, NoOut, << Op("start", vm_name, FALSE) >>)
             ELSE Outcome(records, [vms EXCEPT ![vm_name] = "Running"], cache, 0,
                          Out("Instance restarted", name, o.port, ""),
                          << Op("start", vm_name, TRUE) >>)
        ELSE Provision(name, codebase, o, fails, rc, tmp, okAt)

\* Mutant: a stopped VM is not told from a missing one.
LiveStatus_NoStopped(v, vm_name) ==
    IF InfoRunning(v, vm_name) THEN "running" ELSE "unknown"

\* The live status the status command prints for an existing record.
LiveStatus(v, vm_name) ==
    IF InfoRunning(v, vm_name) THEN "running"
    ELSE IF InfoStopped(v, vm_name) THEN "stopped"
    ELSE "unknown"

\* Mutant: a missing record is reported with exit status 0.
StatusOutcome_ExitZero(name) ==
    IF name = "" THEN Unchanged(1, Die("Usage: status <name>", ""))
    ELSE IF ~InstanceDirExists(records, name)
    THEN Unchanged(0, Out("not found", "", "", ""))
    ELSE Unchanged(0, Out(LiveStatus(vms, get_vm_name(name)), "", "", ""))

StatusOutcome(name) ==
    IF name = "" THEN Unchanged(1, Die("Usage: status <name>", ""))
    ELSE IF ~InstanceDirExists(records, name)
    THEN Unchanged(1, Out("not found", "", "", ""))
    ELSE Unchanged(0, Out(LiveStatus(vms, get_vm_name(name)), "", "", ""))

\* Mutant: the existence check is skipped.
check_instance_exists_Skipped(name) == ""

\* check_instance_exists: the error it dies with, "" when the record exists.
check_instance_exists(name) ==
    IF InstanceDirExists(records, name) THEN "" ELSE "Instance not found"

StopOutcome(name, fails) ==
    LET vm_name == get_vm_name(name)
    IN  IF name = "" THEN Unchanged(1, Die("Usage: stop <name>", ""))
        ELSE IF check_instance_exists(name) # ""
        THEN Unchanged(1, Die(check_instance_exists(name), name))
        ELSE IF "stop" \in fails \/ ~InfoSucceeds(vms, vm_name)
        THEN Outcome(records, vms, cache, 1, Die("Failed to stop VM", ""),
                     << Op("stop", vm_name, FALSE) >>)
        ELSE Outcome(records, [vms EXCEPT ![vm_name] = "Stopped"], cache, 0,
                     Out("Instance stopped", name, "", ""), << Op("stop", vm_name, TRUE) >>)

DestroyOutcome(name, fails) ==
    LET vm_name == get_vm_name(name)
        deleted == InfoSucceeds(vms, vm_name) /\ "delete" \notin fails
    IN  IF name = "" THEN Unchanged(1, Die("Usage: destroy <name>", ""))
        ELSE IF check_instance_exists(name) # ""
        THEN Unchanged(1, Die(check_instance_exists(name), name))
        ELSE Outcome([records EXCEPT ![name] = NoRecord],
                     IF deleted THEN [vms EXCEPT ![vm_name] = "Absent"] ELSE vms,
                     cache, 0,
                     Out("Instance destroyed", name, "",
                         IF deleted THEN "" ELSE "WARNING: VM may not exist"),
                     << Op("delete", vm_name, deleted), Op("rm_state", "", TRUE) >>)

\* load_instance_state is reached only past check_instance_exists, and the
\* directory and its config.json are written and removed together.
load_instance_state(name) == records[name]

InfoOutcome(name) ==
    IF name = "" THEN Unchanged(1, Die("Usage: info <name>", ""))
    ELSE IF check_instance_exists(name) # ""
    THEN Unchanged(1, Die(check_instance_exists(name), name))
    ELSE Unchanged(0, Out("Instance", name, JqPort(load_instance_state(name)),
                          LiveStatus(vms, get_vm_name(name))))

\* Mutant: the browser is opened whatever the live status.
OpenOutcome_NoStatusCheck(name) ==
    IF name = "" THEN Unchanged(1, Die("Usage: open <name>", ""))
    ELSE IF check_instance_exists(name) # ""
    THEN Unchanged(1, Die(check_instance_exists(name), name))
    ELSE Outcome(records, vms, cache, 0,
                 Out("Opening in browser", name, JqPort(load_instance_state(name)),
                     "running"),
                 << Op("open_browser", "", TRUE) >>)

OpenOutcome(name) ==
    IF name = "" THEN Unchanged(1, Die("Usage: open <name>", ""))
    ELSE IF check_instance_exists(name) # ""
    THEN Unchanged(1, Die(check_instance_exists(name), name))
    ELSE IF LiveStatus(vms, get_vm_name(name)) # "running"
    THEN Unchanged(1, Die("Instance is not running", name))
    ELSE Outcome(records, vms, cache, 0,
                 Out("Opening in browser", name, JqPort(load_instance_state(name)),
                     "running"),
                 << Op("open_browser", "", TRUE) >>)

\* Mutant: a record whose VM no longer exists gets no row.
RECURSIVE list_rows_SkipsMissingVm(_)
list_rows_SkipsMissingVm(i) ==
    IF i > Len(NameSeq) THEN << >>
    ELSE ( IF records[NameSeq[i]] # NoRecord
              /\ InfoSucceeds(vms, get_vm_name(records[NameSeq[i]].name))
           THEN << [ name   |-> records[NameSeq[i]].name,
                     status |-> LiveStatus(vms, get_vm_name(records[NameSeq[i]].name)),
                     port   |-> JqPort(records[NameSeq[i]]) ] >>
           ELSE << >> ) \o list_rows_SkipsMissingVm(i + 1)

\* The rows command_list prints: one per config.json, in glob order.
RECURSIVE list_rows(_)
list_rows(i) ==
    IF i > Len(NameSeq) THEN << >>
    ELSE ( IF records[NameSeq[i]] # NoRecord
           THEN << [ name   |-> records[NameSeq[i]].name,
                     status |-> LiveStatus(vms, get_vm_name(records[NameSeq[i]].name)),
                     port   |-> JqPort(records[NameSeq[i]]) ] >>
           ELSE << >> ) \o list_rows(i + 1)

ListOutcome == Unchanged(0, [ Out("NAME STATUS PORT IP CODEBASE", "", "", "")
                                EXCEPT !.rows = list_rows(1) ])

\* multipass exec needs a running VM.
ReindexOutcome(name, fails, rc) ==
    LET vm_name == get_vm_name(name)
    IN  IF name = "" THEN Unchanged(1, Die("Usage: reindex <name>", ""))
        ELSE IF check_instance_exists(name) # ""
        THEN Unchanged(1, Die(check_instance_exists(name), name))
        ELSE IF LiveStatus(vms, vm_name) # "running"
        THEN Unchanged(1, Die("Instance is not running", name))
        ELSE IF "exec_reindex" \in fails
        THEN Outcome(records, vms, cache, rc, NoOut, << Op("exec_reindex", vm_name, FALSE) >>)
        ELSE Outcome(records, vms, cache, 0, Out("Reindexing complete", name, "", ""),
                     << Op("exec_reindex", vm_name, TRUE) >>)

\* multipass shell starts a stopped VM before it opens the prompt.
ShellOutcome(name, fails, rc) ==
    LET vm_name == get_vm_name(name)
    IN  IF name = "" THEN Unchanged(1, Die("Usage: shell <name>", ""))
        ELSE IF check_instance_exists(name) # ""
        THEN Unchanged(1, Die(check_instance_exists(name), name))
        ELSE IF "shell" \in fails \/ ~InfoSucceeds(vms, vm_name)
        THEN Outcome(records, vms, cache, rc, NoOut, << Op("shell", vm_name, FALSE) >>)
        ELSE Outcome(records, [vms EXCEPT ![vm_name] = "Running"], cache, 0, NoOut,
                     << Op("shell", vm_name, TRUE) >>)

LogsOutcome(name, fails, rc) ==
    LET vm_name == get_vm_name(name)
    IN  IF name = "" THEN Unchanged(1, Die("Usage: logs <name> [--follow]", ""))
        ELSE IF check_instance_exists(name) # ""
        THEN Unchanged(1, Die(check_instance_exists(name), name))
        ELSE IF "exec_logs" \in fails \/ ~InfoRunning(vms, vm_name)
        THEN Outcome(records, vms, cache, rc, NoOut, << Op("exec_logs", vm_name, FALSE) >>)
        ELSE Outcome(records, vms, cache, 0, Out("journalctl -u tomcat", name, "", ""),
                     << Op("exec_logs", vm_name, TRUE) >>)

\* ---------------------------------------------------------------- actions
\* The terminal is at the prompt: no invocation is running and the outcome
\* of the last one has scrolled away.  Invocations run one at a time.
AtPrompt == cmd = ""

\* The invocation `c name a...` runs from the prompt and ends with outcome r.
Finish(c, name, a, r) ==
    /\ AtPrompt
    /\ records' = r.recs
    /\ vms' = r.vms
    /\ cache' = r.cache
    /\ cmd' = c
    /\ arg' = name
    /\ cmdArgs' = a
    /\ exitCode' = r.exit
    /\ out' = r.out
    /\ ops' = r.ops
    /\ UNCHANGED << now, procs >>

\* The failures an invocation of start can meet, with the attempt at which
\* the service answers the probe when the run gets that far.
StartFails ==
    { f \in FailSets : f \cap {"stop", "delete", "exec_reindex", "shell", "exec_logs"} = {} }

StartRuns ==
    { [ fails |-> f, okAt |-> k ] :
        f \in { g \in StartFails : g \subseteq {"transfer_source"} }, k \in ProbeInputs }
    \cup { [ fails |-> f, okAt |-> 0 ] : f \in StartFails }

\* The backend commands a start invocation runs when none fails before it
\* (the mount fallback included): a command it never runs cannot fail.
StartReaches(name, a, tmp) ==
    LET OpsOf(r) == { r.ops[i].op : i \in 1..Len(r.ops) }
    IN  OpsOf(StartOutcome(name, a, {}, 1, tmp, 0))
            \cup OpsOf(StartOutcome(name, a, {"transfer_source"}, 1, tmp, 0))

command_start ==
    /\ AtPrompt
    /\ \E name \in NameArgs, a \in StartArgvs, tmp \in TmpDirs :
        LET reached == StartReaches(name, a, tmp)
        IN  \E run \in { r \in StartRuns : r.fails \subseteq reached },
               rc \in BackendFailCodes :
                Finish("start", name, a,
                       StartOutcome(name, a, run.fails, rc, tmp, run.okAt))

command_stop ==
    AtPrompt /\ \E name \in NameArgs, fails \in { {}, {"stop"} } :
        Finish("stop", name, << >>, StopOutcome(name, fails))

command_destroy ==
    AtPrompt /\ \E name \in NameArgs, fails \in { {}, {"delete"} } :
        Finish("destroy", name, << >>, DestroyOutcome(name, fails))

command_status ==
    AtPrompt /\ \E name \in NameArgs : Finish("status", name, << >>, StatusOutcome(name))

command_info ==
    AtPrompt /\ \E name \in NameArgs : Finish("info", name, << >>, InfoOutcome(name))

command_open ==
    AtPrompt /\ \E name \in NameArgs : Finish("open", name, << >>, OpenOutcome(name))

command_list == Finish("list", "", << >>, ListOutcome)

command_reindex ==
    AtPrompt /\ \E name \in NameArgs, fails \in { {}, {"exec_reindex"} }, rc \in BackendFailCodes :
        Finish("reindex", name, << >>, ReindexOutcome(name, fails, rc))

command_shell ==
    AtPrompt /\ \E name \in NameArgs, fails \in { {}, {"shell"} }, rc \in BackendFailCodes :
        Finish("shell", name, << >>, ShellOutcome(name, fails, rc))

command_logs ==
    AtPrompt /\ \E name \in NameArgs, fails \in { {}, {"exec_logs"} }, rc \in BackendFailCodes :
        Finish("logs", name, << >>, LogsOutcome(name, fails, rc))

command_help == Finish("help", "", << >>, Unchanged(0, Out("Usage", "", "", "")))

\* main's default branch: a verb it does not know.
UnknownCommand ==
    Finish("bogus", "", << >>, Unchanged(1, Die("Unknown command", "")))

\* The process has exited; the terminal is back at the prompt.
Prompt ==
    /\ ~AtPrompt
    /\ cmd' = ""
    /\ arg' = ""
    /\ cmdArgs' = << >>
    /\ exitCode' = 0
    /\ out' = NoOut
    /\ ops' = << >>
    /\ UNCHANGED << records, vms, cache, now, procs >>

\* Time passes.
Tick ==
    /\ AtPrompt
    /\ now < MaxTime
    /\ now' = now + 1
    /\ UNCHANGED << records, vms, cache, cmd, arg, cmdArgs, exitCode, out, ops, procs >>

\* A VM is deleted outside the tool (multipass delete --purge by hand).
VmDeletedOutside ==
    \E v \in VmNames :
        /\ AtPrompt
        /\ vms[v] # "Absent"
        /\ vms' = [vms EXCEPT ![v] = "Absent"]
        /\ UNCHANGED << records, cache, now, cmd, arg, cmdArgs, exitCode, out, ops, procs >>

Init ==
    /\ records = [ n \in Names |-> NoRecord ]
    /\ vms = [ v \in VmNames |-> "Absent" ]
    /\ cache = "absent"
    /\ now = 0
    /\ cmd = ""
    /\ arg = ""
    /\ cmdArgs = << >>
    /\ exitCode = 0
    /\ out = NoOut
    /\ ops = << >>
    /\ procs = << >>

Next ==
    \/ command_start
    \/ command_stop
    \/ command_destroy
    \/ command_status
    \/ command_info
    \/ command_open
    \/ command_list
    \/ command_reindex
    \/ command_shell
    \/ command_logs
    \/ command_help
    \/ UnknownCommand
    \/ Prompt
    \/ Tick
    \/ VmDeletedOutside

Spec == Init /\ [][Next]_vars

\* ------------------------------------------------------------ properties
\* The options the last start invocation was given.
GivenOptions(a) == ParseOptions(OptionArgs(a), DefaultOptions)

\* The step just taken was the invocation `verb n`.
Ran(verb, n) == cmd' = verb /\ arg' = n

\* Every multipass and downloader command of a log succeeded.
BackendOk(log) ==
    \A i \in 1..Len(log) : log[i].op # "wait_for_opengrok" => log[i].ok

\* What `status n` prints in the current state.
StatusText(n) == StatusOutcome(n).out.text

\* The port `info n` shows in the current state.
InfoPort(n) == InfoOutcome(n).out.port

PortConflictText == "ERROR: Port already used by running instance"

NotFoundText == "ERROR: Instance not found"

\* C1: for every name with no record, `status name` prints "not found",
\* exits with code 1 and changes neither a record nor a VM.
C1_StatusNotFound ==
    [][ \A n \in Names :
          Ran("status", n) /\ records[n] = NoRecord
          => /\ out'.text = "not found"
             /\ exitCode' = 1
             /\ ops' = << >>
             /\ UNCHANGED << records, vms >> ]_vars

\* `status a` has answered "not found" for a name with no record while the
\* other instance has one.
C1_Witness ==
    /\ cmd = "status" /\ arg = "a"
    /\ out.text = "not found" /\ exitCode = 1
    /\ records["a"] = NoRecord
    /\ records["b"] # NoRecord

\* C2: after a fresh `start name` with no codebase argument in which every
\* backend operation succeeded, the record exists, `status name` says
\* "running" and `info name` shows the --port value (8080 when none given).
C2_StartThenRunning ==
    [][ \A n \in Names :
          /\ Ran("start", n)
          /\ records[n] = NoRecord
          /\ CodebaseArg(cmdArgs') = ""
          /\ GivenOptions(cmdArgs').err = ""
          /\ BackendOk(ops')
          /\ out'.text # PortConflictText
          => /\ records'[n] # NoRecord
             /\ StatusText(n)' = "running"
             /\ InfoPort(n)' = GivenOptions(cmdArgs').port
             /\ ("--port" \notin { cmdArgs'[i] : i \in 1..Len(cmdArgs') }
                    => InfoPort(n)' = "8080") ]_vars

\* A fresh demo start given --port 9000 has completed.
C2_Witness ==
    /\ cmd = "start" /\ arg = "b" /\ cmdArgs = << "--port", "9000" >>
    /\ exitCode = 0
    /\ BackendOk(ops)
    /\ InfoPort("b") = "9000"
    /\ StatusText("b") = "running"

\* C3: when the record exists and its VM is Running, `start name` with any
\* arguments is a no-op: it issues no port check, cache refresh, VM
\* operation, transfer, install or record write, leaves records, VMs and
\* cache as they were, and addresses the VM the record names.
C3_StartRunningNoOp ==
    [][ \A n \in Names :
          /\ Ran("start", n)
          /\ records[n] # NoRecord
          /\ vms[get_vm_name(n)] = "Running"
          => /\ ops' = << >>
             /\ UNCHANGED << records, vms, cache >>
             /\ get_vm_name(n) = records[n].vm_name
             /\ ( GivenOptions(cmdArgs').err = ""
                    => /\ exitCode' = 0
                       /\ out'.text = "Instance is already running"
                       /\ out'.who = n ) ]_vars

\* A start with a codebase argument and a --port has found its instance
\* running.
C3_Witness ==
    /\ cmd = "start" /\ arg = "a"
    /\ cmdArgs = << "/w/p", "--port", "9000" >>
    /\ out.text = "Instance is already running"
    /\ records["a"].codebase_type = "demo"
    /\ vms[get_vm_name("a")] = "Running"

\* C4: `start name` on a stopped instance (as `stop name` leaves it) issues
\* nothing but multipass start on the VM the record names: no create, no
\* transfer, no install; the record keeps every field whatever the
\* arguments, and the VM runs when the start succeeded.
C4_StopThenStartResumes ==
    [][ \A n \in Names :
          /\ Ran("start", n)
          /\ records[n] # NoRecord
          /\ vms[get_vm_name(n)] = "Stopped"
          => /\ records' = records
             /\ cache' = cache
             /\ \A i \in 1..Len(ops') :
                    ops'[i].op = "start" /\ ops'[i].vm = records[n].vm_name
             /\ ( GivenOptions(cmdArgs').err = "" => Len(ops') = 1 )
             /\ ( GivenOptions(cmdArgs').err = "" /\ BackendOk(ops')
                    => /\ vms' = [vms EXCEPT ![records[n].vm_name] = "Running"]
                       /\ exitCode' = 0 )
             /\ ( ~BackendOk(ops') => vms' = vms ) ]_vars

\* A stopped demo instance has been restarted by a start that named a
\* local codebase and another port; its record still says demo.
C4_Witness ==
    /\ cmd = "start" /\ arg = "a"
    /\ cmdArgs = << "/w/p", "--port", "9000" >>
    /\ out.text = "Instance restarted"
    /\ records["a"].codebase_type = "demo"
    /\ records["a"].port = "8080"
    /\ vms[get_vm_name("a")] = "Running"

\* The other instances that hold port p in their record while their VM runs.
RunningOwners(p, n) ==
    { a \in Names \ {n} :
        /\ records[a] # NoRecord
        /\ JqPort(records[a]) = p
        /\ vms[get_vm_name(a)] = "Running" }

\* C5: a fresh `start b --port P` while another instance with port P runs
\* fails with exit code 1 naming a running owner, having done nothing but
\* the port check: no VM, no download, no transfer, no record.
C5_PortConflict ==
    [][ \A n \in Names :
          /\ Ran("start", n)
          /\ records[n] = NoRecord
          /\ GivenOptions(cmdArgs').err = ""
          /\ RunningOwners(GivenOptions(cmdArgs').port, n) # {}
          => /\ exitCode' = 1
             /\ out'.text = PortConflictText
             /\ out'.who \in RunningOwners(GivenOptions(cmdArgs').port, n)
             /\ Len(ops') = 1 /\ ops'[1].op = "check_port_available"
             /\ UNCHANGED << records, vms, cache >> ]_vars

\* `start b --port 9000` has been refused because a runs on 9000.
C5_Witness ==
    /\ cmd = "start" /\ arg = "b" /\ cmdArgs = << "--port", "9000" >>
    /\ exitCode = 1
    /\ out.text = PortConflictText /\ out.who = "a"
    /\ records["b"] = NoRecord
    /\ records["a"].port = "9000" /\ vms[get_vm_name("a")] = "Running"

\* C6: only running owners block a port.  When no other instance holding
\* port P runs (its own record aside), the port check for (P, name)
\* succeeds, and a start that reaches the check goes on to the dependency
\* cache and VM creation whenever its codebase argument is valid.
C6_StoppedOwnersDoNotBlock ==
    [][ \A n \in Names :
          /\ Ran("start", n)
          /\ GivenOptions(cmdArgs').err = ""
          /\ ( records[n] = NoRecord \/ ~InfoSucceeds(vms, get_vm_name(n)) )
          /\ RunningOwners(GivenOptions(cmdArgs').port, n) = {}
          => /\ check_port_available(GivenOptions(cmdArgs').port, n, records, vms) = ""
             /\ out'.text # PortConflictText
             /\ ops'[1] = Op("check_port_available", "", TRUE)
             /\ ( Classify(CodebaseArg(cmdArgs'), "").type # ""
                    => \E i \in 1..Len(ops') : ops'[i].op \in {"download", "launch"} ) ]_vars

\* `start b --port 9000` has succeeded while a, stopped, holds port 9000.
C6_Witness ==
    /\ cmd = "start" /\ arg = "b" /\ cmdArgs = << "--port", "9000" >>
    /\ exitCode = 0
    /\ records["b"].port = "9000"
    /\ records["a"].port = "9000"
    /\ vms[get_vm_name("a")] = "Stopped"
    /\ vms[get_vm_name("b")] = "Running"

\* C7: after `destroy name` has exited with code 0, neither the record nor
\* the VM of `name` exists and `status name` says "not found", whatever the
\* VM state was and whether or not multipass delete succeeded.
C7_DestroyRemovesVmAndRecord ==
    \A n \in Names :
        cmd = "destroy" /\ arg = n /\ exitCode = 0
        => /\ records[n] = NoRecord
           /\ vms[get_vm_name(n)] = "Absent"
           /\ StatusText(n) = "not found"

\* C8: a record for `name` exists exactly when a `start name` has succeeded
\* (exit code 0) and no `destroy name` has run since.  Stated step by step:
\* a record appears only with a successful start, disappears only with a
\* destroy, is there after every successful start and gone after every
\* destroy of a recorded instance.
C8_RecordIffStarted ==
    [][ \A n \in Names :
          /\ ( records[n] = NoRecord /\ records'[n] # NoRecord
                 => Ran("start", n) /\ exitCode' = 0 )
          /\ ( records[n] # NoRecord /\ records'[n] = NoRecord
                 => Ran("destroy", n) )
          /\ ( Ran("start", n) /\ exitCode' = 0 => records'[n] # NoRecord )
          /\ ( Ran("destroy", n) => records'[n] = NoRecord ) ]_vars

NeedsRecord == {"stop", "destroy", "info", "open", "reindex", "shell", "logs"}

\* C10: stop, destroy, info, open, reindex, shell and logs on a name with
\* no record fail with exit code 1 before any step is issued and leave
\* records and VMs as they were.
C10_NoRecordNoOperation ==
    [][ \A n \in Names :
          cmd' \in NeedsRecord /\ arg' = n /\ records[n] = NoRecord
          => /\ exitCode' = 1
             /\ out'.text = NotFoundText
             /\ ops' = << >>
             /\ UNCHANGED << records, vms, cache >> ]_vars

\* `destroy a` has been refused for want of a record while the VM a failed
\* provisioning left behind is still running.
C10_Witness ==
    /\ cmd = "destroy" /\ arg = "a"
    /\ exitCode = 1 /\ out.text = NotFoundText
    /\ records["a"] = NoRecord
    /\ vms[get_vm_name("a")] = "Running"

\* The stages of a fresh provisioning whose failure ends it: VM creation,
\* script and dependency transfer, codebase materialization (the fallback
\* of the tree copy included) and the remote install.
AbortingStages ==
    { "launch", "exec_mkdir_scripts", "transfer_download_script",
      "transfer_install_script", "exec_mkdir_deps", "transfer_deps",
      "exec_mkdir_source", "mount", "exec_cp", "exec_git_clone", "exec_install" }

\* A step of the log failed in one of those stages.
StageFailed(log) ==
    \E i \in 1..Len(log) : log[i].op \in AbortingStages /\ ~log[i].ok

\* The start of `n` about to run takes the fresh path: there is no record,
\* or the VM the record names is gone.
FreshStart(n) == records[n] = NoRecord \/ ~InfoSucceeds(vms, get_vm_name(n))

\* C11: when a stage of a fresh start fails, the invocation exits with code
\* 1 at once: the failed step is the last one issued, no step was retried,
\* no VM is stopped or deleted (a VM already created stays Running), and
\* no record is written.
C11_FailFastExitOne ==
    [][ \A n \in Names :
          Ran("start", n) /\ FreshStart(n) /\ StageFailed(ops')
          => /\ exitCode' = 1
             /\ ~ops'[Len(ops')].ok
             /\ \A i, j \in 1..Len(ops') : i # j => ops'[i].op # ops'[j].op
             /\ \A i \in 1..Len(ops') :
                    ops'[i].op \notin {"delete", "stop", "save_instance_state"}
             /\ records' = records
             /\ ( \E i \in 1..Len(ops') : ops'[i].op = "launch" /\ ops'[i].ok )
                    => vms'[get_vm_name(n)] = "Running"
             /\ \A v \in VmNames : v # get_vm_name(n) => vms'[v] = vms[v] ]_vars

\* The same with the exit code only required to be non-zero.
FailFastNonZero ==
    [][ \A n \in Names :
          Ran("start", n) /\ FreshStart(n) /\ StageFailed(ops')
          => /\ exitCode' # 0
             /\ ~ops'[Len(ops')].ok
             /\ \A i, j \in 1..Len(ops') : i # j => ops'[i].op # ops'[j].op
             /\ \A i \in 1..Len(ops') :
                    ops'[i].op \notin {"delete", "stop", "save_instance_state"}
             /\ records' = records
             /\ ( \E i \in 1..Len(ops') : ops'[i].op = "launch" /\ ops'[i].ok )
                    => vms'[get_vm_name(n)] = "Running"
             /\ \A v \in VmNames : v # get_vm_name(n) => vms'[v] = vms[v] ]_vars

\* The last invocation was a fresh `start n` that created the VM and then
\* aborted in a later stage, leaving no record.
AbortedAfterCreate(n) ==
    /\ cmd = "start" /\ arg = n
    /\ records[n] = NoRecord
    /\ StageFailed(ops)
    /\ \E i \in 1..Len(ops) : ops[i].op = "launch" /\ ops[i].ok

\* C12: from the state a fresh `start name` leaves when it aborted after
\* the VM was created, `destroy name` (its multipass delete succeeding)
\* exits 0 and removes the leftover VM, so that a following start can
\* create the VM again.
C12_DestroyRecoversAbortedStart ==
    \A n \in Names :
        AbortedAfterCreate(n)
        => /\ DestroyOutcome(n, {}).exit = 0
           /\ DestroyOutcome(n, {}).vms[get_vm_name(n)] = "Absent"
           /\ DestroyOutcome(n, {}).recs[n] = NoRecord

\* Every step of a log succeeded, the readiness probe included.
AllOk(log) == \A i \in 1..Len(log) : log[i].ok

\* C13: a `start` given valid arguments whose executed steps all succeeded
\* exits with code 0, whatever the codebase type (demo, local, git) and the
\* path taken (fresh provisioning, restart, already running).
C13_StartSuccessExitsZero ==
    [][ \A n \in Names :
          /\ Ran("start", n)
          /\ GivenOptions(cmdArgs').err = ""
          /\ Classify(CodebaseArg(cmdArgs'), "").type # ""
          /\ AllOk(ops')
          => exitCode' = 0 ]_vars

\* The same for the demo codebase and for the paths that return before the
\* codebase is looked at.
StartSuccessExitsZeroDemo ==
    [][ \A n \in Names :
          /\ Ran("start", n)
          /\ GivenOptions(cmdArgs').err = ""
          /\ Classify(CodebaseArg(cmdArgs'), "").type # ""
          /\ AllOk(ops')
          /\ ( Classify(CodebaseArg(cmdArgs'), "").type = "demo" \/ ~FreshStart(n) )
          => exitCode' = 0 ]_vars

\* The readiness probe ran and none of its attempts was answered.
ProbeTimedOut(log) ==
    \E i \in 1..Len(log) : log[i].op = "wait_for_opengrok" /\ ~log[i].ok

\* C14: when the readiness probe times out at the end of a fresh start, the
\* start still succeeds: a warning is printed, the exit code is 0, the
\* record is there, no VM stop or delete is issued and the VM runs.
C14_ProbeTimeoutIsSuccess ==
    [][ \A n \in Names :
          Ran("start", n) /\ ProbeTimedOut(ops')
          => /\ out'.text = "WARNING: OpenGrok may not be ready yet"
             /\ exitCode' = 0
             /\ records'[n] # NoRecord
             /\ \A i \in 1..Len(ops') : ops'[i].op \notin {"stop", "delete"}
             /\ vms'[get_vm_name(n)] = "Running" ]_vars

\* The same with the exit code required for the demo codebase only.
ProbeTimeoutKeepsInstance ==
    [][ \A n \in Names :
          Ran("start", n) /\ ProbeTimedOut(ops')
          => /\ out'.text = "WARNING: OpenGrok may not be ready yet"
             /\ ( records'[n].codebase_type = "demo" => exitCode' = 0 )
             /\ records'[n] # NoRecord
             /\ \A i \in 1..Len(ops') : ops'[i].op \notin {"stop", "delete"}
             /\ vms'[get_vm_name(n)] = "Running" ]_vars

\* The VM create, start, stop, delete and exec operations.
DriverOps ==
    { "launch", "start", "stop", "delete", "exec_mkdir_scripts", "exec_mkdir_deps",
      "exec_mkdir_source", "exec_cp", "exec_git_clone", "exec_install",
      "exec_reindex", "exec_logs" }

\* C15: in every command, a VM create, start, stop, delete or exec
\* operation that exits non-zero makes the invocation exit with code 1; a
\* failed delete during destroy included.
C15_BackendFailureExitsOne ==
    [][ ( \E i \in 1..Len(ops') : ops'[i].op \in DriverOps /\ ~ops'[i].ok )
          => exitCode' = 1 ]_vars

\* What does hold: apart from destroy, such a failure ends the invocation
\* with a non-zero exit code.
BackendFailureExitsNonZero ==
    [][ ( \E i \in 1..Len(ops') : ops'[i].op \in DriverOps \ {"delete"} /\ ~ops'[i].ok )
          => exitCode' # 0 ]_vars

\* The verbs that take a required instance name.
NameVerbs ==
    {"start", "stop", "destroy", "status", "info", "open", "reindex", "shell", "logs"}

\* C16: a start with a missing name or a bad option, any command with a
\* missing required name, and an unknown verb exit with code 1 and a
\* message, having issued no step at all: no record read or written,
\* no cache download, no demo tree, no VM operation.
C16_ValidationErrorNoEffect ==
    [][ ( \/ cmd' \in NameVerbs /\ arg' = ""
          \/ cmd' = "start" /\ GivenOptions(cmdArgs').err # ""
          \/ cmd' # "" /\ cmd' \notin NameVerbs \cup {"list", "help"} )
        => /\ exitCode' = 1
           /\ out'.text # ""
           /\ ops' = << >>
           /\ UNCHANGED << records, vms, cache >> ]_vars

\* `start b --bogus` has been refused although b is a stopped instance that
\* a valid start would have restarted.
C16_Witness ==
    /\ cmd = "start" /\ arg = "b" /\ cmdArgs = << "--bogus" >>
    /\ exitCode = 1 /\ out.text = "ERROR: Unknown option"
    /\ records["b"] # NoRecord
    /\ vms[get_vm_name("b")] = "Stopped"

\* The classification the start of a codebase argument c is to arrive at:
\* demo for no argument, else local for an existing directory, else git
\* for a remote URL, else none.
ExpectedType(c) ==
    IF c = "" THEN "demo"
    ELSE IF \E d \in HostDirs : d = c \/ d = Cwd \o "/" \o c THEN "local"
    ELSE IF \E p \in {"http://", "https://", "git@", "ssh://"} : StartsWith(c, p)
    THEN "git"
    ELSE ""

\* The URL's base name without a trailing ".git".
UrlProject(c) ==
    LET b == basename(c, "")
    IN  IF EndsWith(b, ".git") THEN SubSeq(b, 1, Len(b) - 4) ELSE b

\* Whether a classification is the one the codebase argument c calls for.
ClassifiedAs(c, type, path, project) ==
    /\ type = ExpectedType(c)
    /\ type = "demo"  => path \in TmpDirs /\ project = "demo"
    /\ type = "local" => /\ path \in HostDirs /\ StartsWith(path, "/")
                         /\ path \in {c, Cwd \o "/" \o c}
                         /\ project = basename(path, "")
    /\ type = "git"   => path = c /\ project = UrlProject(c)

\* C17: on a fresh start the codebase argument is classified demo, local
\* or git by the stated priority: the record carries the type and path,
\* the install gets the project name, and the demo tree is generated for
\* the demo type only.  Any other argument fails with exit code 1 before
\* the dependency cache is touched or a VM is created, and no record is
\* written.
C17_ClassificationTotalPrioritized ==
    [][ \A n \in Names :
          /\ Ran("start", n)
          /\ FreshStart(n)
          /\ GivenOptions(cmdArgs').err = ""
          /\ RunningOwners(GivenOptions(cmdArgs').port, n) = {}
          => LET c == CodebaseArg(cmdArgs')
             IN  IF ExpectedType(c) = ""
                 THEN /\ exitCode' = 1
                      /\ out'.text = "ERROR: Codebase not found"
                      /\ ops' = << Op("check_port_available", "", TRUE) >>
                      /\ UNCHANGED << records, vms, cache >>
                 ELSE /\ out'.text # "ERROR: Codebase not found"
                      /\ ( ExpectedType(c) = "demo"
                             <=> \E i \in 1..Len(ops') : ops'[i].op = "create_demo_codebase" )
                      /\ \A i \in 1..Len(ops') :
                            /\ ops'[i].op = "exec_git_clone" => ExpectedType(c) = "git"
                            /\ ops'[i].op = "transfer_source" => ExpectedType(c) # "git"
                      /\ \A i \in 1..Len(ops') :
                            ops'[i].op = "exec_install"
                            => \E path \in HostDirs \cup TmpDirs \cup {c} :
                                    ClassifiedAs(c, ExpectedType(c), path, ops'[i].project)
                      /\ ( records'[n] # records[n]
                             => \E i \in 1..Len(ops') :
                                    /\ ops'[i].op = "exec_install"
                                    /\ ClassifiedAs(c, records'[n].codebase_type,
                                                    records'[n].codebase_path,
                                                    ops'[i].project) ) ]_vars

\* A start was given the name of an existing directory that also looks
\* like a git URL: it has been provisioned as a local codebase.
C17_Witness ==
    /\ cmd = "start" /\ arg = "b" /\ cmdArgs = << "git@d" >>
    /\ records["b"].codebase_type = "local"
    /\ records["b"].codebase_path = "/w/git@d"
    /\ \E i \in 1..Len(ops) : ops[i].op = "exec_install" /\ ops[i].project = "git@d"

\* The status word that belongs to a VM state.
StatusWord(state) ==
    CASE state = "Running" -> "running"
      [] state = "Stopped" -> "stopped"
      [] OTHER -> "unknown"

\* C18: the status shown follows the state machine.  After a successful
\* `stop name` on a running instance `status name` says "stopped" and the
\* record is as before; after a successful `start name` on the stopped
\* instance it says "running"; and whenever the record exists `status name`
\* prints the word of the live VM state, exits 0 and changes nothing.
C18_StatusFollowsStateMachine ==
    [][ \A n \in Names :
          /\ ( /\ Ran("stop", n) /\ exitCode' = 0
               /\ records[n] # NoRecord /\ vms[get_vm_name(n)] = "Running"
               => /\ StatusText(n)' = "stopped"
                  /\ vms'[get_vm_name(n)] = "Stopped"
                  /\ records' = records )
          /\ ( /\ Ran("start", n) /\ exitCode' = 0
               /\ records[n] # NoRecord /\ vms[get_vm_name(n)] = "Stopped"
               => /\ StatusText(n)' = "running"
                  /\ vms'[get_vm_name(n)] = "Running"
                  /\ records' = records )
          /\ ( Ran("status", n) /\ records[n] # NoRecord
               => /\ out'.text = StatusWord(vms[get_vm_name(n)])
                  /\ exitCode' = 0
                  /\ UNCHANGED << records, vms, cache >> ) ]_vars

\* `status a` has answered "stopped" for a stopped instance.
C18_Witness ==
    /\ cmd = "status" /\ arg = "a"
    /\ out.text = "stopped" /\ exitCode = 0
    /\ records["a"] # NoRecord
    /\ vms[get_vm_name("a")] = "Stopped"

\* ------------------------------------------- two invocations at the same time
\* Two independent invocations run at once, one on each instance name, and
\* their steps interleave.  A step is one command of the script that reads
\* or writes what the other invocation can see: records, VMs, the cache.
\* The commands of a provisioning that only talk to the invocation's own VM
\* (transfers, codebase, install) are one step.
Procs == 1..Len(NameSeq)

\* The port each instance uses: the two invocations use different ports.
PortOf(name) == IF name = NameSeq[1] THEN DEFAULT_PORT ELSE "9000"

\* The start arguments tried for an instance.
ConcStartArgvs(name) ==
    IF name = NameSeq[1] THEN { << "p" >>, << "--no-cache" >> }
    ELSE { << "--port", "9000" >>, << "/w/p", "--port", "9000" >> }

\* The invocations tried: the verb, its arguments and the commands that
\* fail if they are run.
ConcInvocations(name) ==
    { [ verb |-> "start", args |-> a, fails |-> f ] :
        a \in ConcStartArgvs(name),
        f \in { {}, {"download"}, {"launch"}, {"exec_install"}, {"start"} } }
    \cup { [ verb |-> "stop", args |-> << >>, fails |-> f ] : f \in { {}, {"stop"} } }
    \cup { [ verb |-> "destroy", args |-> << >>, fails |-> f ] : f \in { {}, {"delete"} } }

\* What an instance is like when the two invocations begin: never started,
\* running, stopped, its VM deleted by hand, or the VM an aborted start left.
InstanceStates == { "none", "running", "stopped", "orphan", "leftover" }

RecordIn(name, s) ==
    IF s \in { "none", "leftover" } THEN NoRecord
    ELSE save_instance_state(name, "demo", CHOOSE t \in TmpDirs : TRUE,
                             [ DefaultOptions EXCEPT !.port = PortOf(name) ], 0)

VmIn(s) ==
    CASE s \in { "running", "leftover" } -> "Running"
      [] s = "stopped" -> "Stopped"
      [] OTHER -> "Absent"

\* The record and the VM state the invocation leaves when it runs alone
\* from the current state, the commands of `fails` failing.
Alone(name, inv, fails) ==
    LET r == CASE inv.verb = "start" ->
                    StartOutcome(name, inv.args, fails, 1, CHOOSE t \in TmpDirs : TRUE, 0)
               [] inv.verb = "stop" -> StopOutcome(name, fails)
               [] inv.verb = "destroy" -> DestroyOutcome(name, fails)
    IN  << r.recs[name], r.vms[get_vm_name(name)] >>

\* An invocation about to begin.  `alone` is what it leaves when run alone;
\* `aloneCached` the same when the download it would fail is never run.
NewProc(name, inv) ==
    [ name |-> name, verb |-> inv.verb, args |-> inv.args, fails |-> inv.fails,
      pc |-> "begin", seen |-> {}, downloadFailed |-> FALSE, overlapped |-> FALSE,
      alone |-> Alone(name, inv, inv.fails),
      aloneCached |-> Alone(name, inv, inv.fails \ {"download"}) ]

InitConc ==
    /\ \E s \in [ Names -> InstanceStates ] :
        /\ records = [ n \in Names |-> RecordIn(n, s[n]) ]
        /\ vms = [ v \in VmNames |->
                     VmIn(s[CHOOSE n \in Names : get_vm_name(n) = v]) ]
    /\ cache \in { "absent", "complete" }
    /\ now = 0
    /\ cmd = ""
    /\ arg = ""
    /\ cmdArgs = << >>
    /\ exitCode = 0
    /\ out = NoOut
    /\ ops = << >>
    /\ \E inv \in [ Procs -> UNION { ConcInvocations(n) : n \in Names } ] :
        /\ \A i \in Procs : inv[i] \in ConcInvocations(NameSeq[i])
        /\ procs = [ i \in Procs |-> NewProc(NameSeq[i], inv[i]) ]

\* The options and the codebase of invocation i.
ProcOptions(i) == ParseOptions(OptionArgs(procs[i].args), DefaultOptions)

ProcCodebase(i) == Classify(CodebaseArg(procs[i].args), CHOOSE t \in TmpDirs : TRUE)

ProcVm(i) == get_vm_name(procs[i].name)

\* Invocation i takes a step to `pc`; it overlaps the other invocation when
\* that one has begun and not yet ended.
Goto(i, pc) ==
    [ procs EXCEPT ![i].pc = pc,
                   ![i].overlapped =
                        @ \/ \E j \in Procs \ {i} : procs[j].pc \notin {"begin", "done"} ]

Observation == << now, cmd, arg, cmdArgs, exitCode, out, ops >>

\* The argument check and the look at the instance's own record and VM.
Begin(i) ==
    /\ procs[i].pc = "begin"
    /\ procs' =
         Goto(i, IF procs[i].verb = "start"
                 THEN IF InstanceDirExists(records, procs[i].name)
                         /\ InfoRunning(vms, ProcVm(i)) THEN "done"
                      ELSE IF InstanceDirExists(records, procs[i].name)
                              /\ InfoSucceeds(vms, ProcVm(i)) THEN "restart"
                      ELSE "port_glob"
                 ELSE IF check_instance_exists(procs[i].name) # "" THEN "done"
                 ELSE IF procs[i].verb = "stop" THEN "stop" ELSE "delete")
    /\ UNCHANGED << records, vms, cache, Observation >>

\* multipass start of the stopped VM.
Restart(i) ==
    /\ procs[i].pc = "restart"
    /\ vms' = IF "start" \in procs[i].fails THEN vms
              ELSE [ vms EXCEPT ![ProcVm(i)] = "Running" ]
    /\ procs' = Goto(i, "done")
    /\ UNCHANGED << records, cache, Observation >>

\* check_port_available: the glob lists the records there are now.
PortGlob(i) ==
    /\ procs[i].pc = "port_glob"
    /\ procs' = [ Goto(i, "port_check") EXCEPT
                    ![i].seen = { n \in Names : records[n] # NoRecord } ]
    /\ UNCHANGED << records, vms, cache, Observation >>

\* Mutant: the loop reads the records there are when it runs, not those
\* the glob listed.
PortConflictSeen_Rereads(i) ==
    \E k \in 1..Len(NameSeq) :
        PortBlockedBy(k, ProcOptions(i).port, procs[i].name, records, vms)

\* Whether the loop of check_port_available finds, among the records the
\* glob listed, one that blocks the port.
PortConflictSeen(i) ==
    \E k \in 1..Len(NameSeq) :
        /\ NameSeq[k] \in procs[i].seen
        /\ PortBlockedBy(k, ProcOptions(i).port, procs[i].name, records, vms)

\* check_port_available: each listed record is read, and the VM of one
\* that holds the port is asked for its state.
PortCheck(i) ==
    /\ procs[i].pc = "port_check"
    /\ procs' = Goto(i, IF PortConflictSeen(i) THEN "done" ELSE "ensure_cache")
    /\ UNCHANGED << records, vms, cache, Observation >>

\* ensure_cache: the test, and mkdir -p when a download is due.
EnsureCache(i) ==
    /\ procs[i].pc = "ensure_cache"
    /\ IF NeedsDownload(ProcOptions(i).no_cache, cache)
       THEN /\ cache' = IF cache = "absent" THEN "incomplete" ELSE cache
            /\ procs' = Goto(i, "download")
       ELSE /\ cache' = cache
            /\ procs' = Goto(i, "launch")
    /\ UNCHANGED << records, vms, Observation >>

\* ensure_cache: the downloader.
Download(i) ==
    /\ procs[i].pc = "download"
    /\ IF "download" \in procs[i].fails
       THEN /\ cache' = cache
            /\ procs' = [ Goto(i, "done") EXCEPT ![i].downloadFailed = TRUE ]
       ELSE /\ cache' = "complete"
            /\ procs' = Goto(i, "launch")
    /\ UNCHANGED << records, vms, Observation >>

\* multipass launch.
Launch(i) ==
    /\ procs[i].pc = "launch"
    /\ IF StepFails("launch", procs[i].fails, vms[ProcVm(i)] # "Absent")
       THEN /\ vms' = vms
            /\ procs' = Goto(i, "done")
       ELSE /\ vms' = [ vms EXCEPT ![ProcVm(i)] = "Running" ]
            /\ procs' = Goto(i, "install")
    /\ UNCHANGED << records, cache, Observation >>

\* The transfers, the codebase and the install, all inside the new VM.
Install(i) ==
    /\ procs[i].pc = "install"
    /\ LET steps == RunSteps(Tail(ProvisionSteps(ProcCodebase(i).type, procs[i].fails)),
                             procs[i].fails, FALSE)
       IN  procs' = Goto(i, IF StepAborts(steps[Len(steps)], procs[i].fails, FALSE)
                            THEN "done" ELSE "save")
    /\ UNCHANGED << records, vms, cache, Observation >>

\* save_instance_state.
Save(i) ==
    /\ procs[i].pc = "save"
    /\ records' = [ records EXCEPT ![procs[i].name] =
                      save_instance_state(procs[i].name, ProcCodebase(i).type,
                                          ProcCodebase(i).path, ProcOptions(i), now) ]
    /\ procs' = Goto(i, "wait")
    /\ UNCHANGED << vms, cache, Observation >>

\* wait_for_opengrok and the cleanup.
Wait(i) ==
    /\ procs[i].pc = "wait"
    /\ procs' = Goto(i, "done")
    /\ UNCHANGED << records, vms, cache, Observation >>

\* multipass stop.
Stop(i) ==
    /\ procs[i].pc = "stop"
    /\ vms' = IF "stop" \in procs[i].fails \/ ~InfoSucceeds(vms, ProcVm(i)) THEN vms
              ELSE [ vms EXCEPT ![ProcVm(i)] = "Stopped" ]
    /\ procs' = Goto(i, "done")
    /\ UNCHANGED << records, cache, Observation >>

\* multipass delete --purge, its failure only warned about.
Delete(i) ==
    /\ procs[i].pc = "delete"
    /\ vms' = IF "delete" \in procs[i].fails \/ ~InfoSucceeds(vms, ProcVm(i)) THEN vms
              ELSE [ vms EXCEPT ![ProcVm(i)] = "Absent" ]
    /\ procs' = Goto(i, "rm_state")
    /\ UNCHANGED << records, cache, Observation >>

\* rm -rf of the state directory.
RmState(i) ==
    /\ procs[i].pc = "rm_state"
    /\ records' = [ records EXCEPT ![procs[i].name] = NoRecord ]
    /\ procs' = Goto(i, "done")
    /\ UNCHANGED << vms, cache, Observation >>

NextConc ==
    \E i \in Procs :
        \/ Begin(i)
        \/ Restart(i)
        \/ PortGlob(i)
        \/ PortCheck(i)
        \/ EnsureCache(i)
        \/ Download(i)
        \/ Launch(i)
        \/ Install(i)
        \/ Save(i)
        \/ Wait(i)
        \/ Stop(i)
        \/ Delete(i)
        \/ RmState(i)

SpecConc == InitConc /\ [][NextConc]_vars

\* What invocation i is to leave behind: what it leaves when run alone,
\* the same commands failing.  A download it never ran did not fail.
AloneResult(i) ==
    IF "download" \in procs[i].fails /\ ~procs[i].downloadFailed
    THEN procs[i].aloneCached ELSE procs[i].alone

MaxDemoRuns == 2

\* Directories mktemp -d may hand out to the runs compared.
DemoTmpDirs == TmpDirs \cup { "/tmp/tmp.Bc", "/var/tmp/t" }

\* The start arguments that ask for the demo codebase.
DemoArgvs ==
    { a \in StartArgvs : CodebaseArg(a) = "" /\ GivenOptions(a).err = "" }

InitDemo ==
    /\ records = [ n \in Names |-> NoRecord ]
    /\ vms = [ v \in VmNames |-> "Absent" ]
    /\ cache = "absent"
    /\ now = 0
    /\ cmd = ""
    /\ arg = ""
    /\ cmdArgs = << >>
    /\ exitCode = 0
    /\ out = NoOut
    /\ ops = << >>
    /\ procs = << >>

\* One more start generates the demo tree.
DemoRun ==
    /\ Len(procs) < MaxDemoRuns
    /\ \E name \in Names, a \in DemoArgvs, tmp \in DemoTmpDirs :
         /\ Classify(CodebaseArg(a), tmp).type = "demo"
         /\ procs' = Append(procs,
                            [ name |-> name, args |-> a, started |-> now,
                              tree |-> create_demo_codebase(tmp) ])
    /\ UNCHANGED << records, vms, cache, now, cmd, arg, cmdArgs, exitCode, out, ops >>

\* Time passes between the runs.
DemoTick ==
    /\ now < MaxTime
    /\ now' = now + 1
    /\ UNCHANGED << records, vms, cache, cmd, arg, cmdArgs, exitCode, out, ops, procs >>

NextDemo == DemoRun \/ DemoTick

SpecDemo == InitDemo /\ [][NextDemo]_vars

\* The generated tree as the transfer of "$source_path"/* sees it: contents
\* by path relative to the demo directory.
RelativeTree(t) ==
    [ r \in { SubSeq(q, Len(t.dir) + 2, Len(q)) : q \in DOMAIN t.files } |->
        t.files[t.dir \o "/" \o r] ]

C21_RestartProbesReadiness ==
    [][ \A n \in Names :
          /\ Ran("start", n)
          /\ records[n] # NoRecord
          /\ vms[get_vm_name(n)] = "Stopped"
          /\ exitCode' = 0
          => /\ \E i \in 1..Len(ops') : ops'[i].op = "start" /\ ops'[i].ok
             /\ \E i \in 1..Len(ops') : ops'[i].op = "wait_for_opengrok" ]_vars

\* The position of the first step `op` in a log, 0 when it is not there.
Pos(log, op) ==
    IF \E i \in 1..Len(log) : log[i].op = op
    THEN CHOOSE i \in 1..Len(log) :
            log[i].op = op /\ \A j \in 1..(i - 1) : log[j].op # op
    ELSE 0

\* Whether the steps of a log that belong to `stages` come in the order of
\* `stages`, each one there only if the one before it is there and succeeded.
InStageOrder(log, stages) ==
    \A k \in 2..Len(stages) :
        Pos(log, stages[k]) # 0
        => /\ Pos(log, stages[k - 1]) # 0
           /\ Pos(log, stages[k - 1]) < Pos(log, stages[k])
           /\ ( log[Pos(log, stages[k - 1])].ok \/ stages[k - 1] = "wait_for_opengrok" )

\* The codebase step of a log: the tree copy or the clone.
WithCodebaseStage(log) ==
    [ i \in 1..Len(log) |->
        IF log[i].op \in { "exec_git_clone", "exec_mkdir_source" }
        THEN [ log[i] EXCEPT !.op = "codebase" ] ELSE log[i] ]

\* C22: the stages of a fresh start come in the order port check, VM
\* create, dependency transfer, codebase, remote install, readiness probe,
\* record save, each after the one before it succeeded; the record is
\* written only after the probe has returned.
C22_SaveAfterProbe ==
    [][ \A n \in Names :
          Ran("start", n) /\ FreshStart(n)
          => /\ InStageOrder(WithCodebaseStage(ops'),
                             << "check_port_available", "launch", "transfer_deps",
                                "codebase", "exec_install", "wait_for_opengrok",
                                "save_instance_state" >>)
             /\ ( records'[n] # records[n]
                    => Pos(ops', "wait_for_opengrok") # 0
                       /\ Pos(ops', "wait_for_opengrok") < Pos(ops', "save_instance_state") ) ]_vars

\* The order the stages do come in: the record is saved before the probe.
StagesInProgramOrder ==
    [][ \A n \in Names :
          Ran("start", n) /\ FreshStart(n)
          => /\ InStageOrder(WithCodebaseStage(ops'),
                             << "check_port_available", "launch", "transfer_deps",
                                "codebase", "exec_install", "save_instance_state",
                                "wait_for_opengrok" >>)
             /\ ( records'[n] # records[n] => Pos(ops', "save_instance_state") # 0 ) ]_vars

\* ------------------------------------------------ the probe, step by step
\* wait_for_opengrok as the shell runs it: the loop test, one curl request
\* per round, the increment and the sleep.  procs holds the function's
\* locals: the position, attempt, the number of requests issued and the
\* return status (-1 while the function has not returned).  The endpoint
\* is free: a request is answered with success, answered with a failure
\* (refused connection, non-2xx status), or never answered -- curl is given
\* neither --max-time nor --connect-timeout, so it waits as long as the
\* endpoint keeps the connection open.
InitProbe ==
    /\ records = [ n \in Names |-> NoRecord ]
    /\ vms = [ v \in VmNames |-> "Absent" ]
    /\ cache = "absent"
    /\ now = 0
    /\ cmd = ""
    /\ arg = ""
    /\ cmdArgs = << >>
    /\ exitCode = 0
    /\ out = NoOut
    /\ ops = << >>
    /\ procs = [ pc |-> "while", attempt |-> 0, requests |-> 0, rc |-> -1 ]

ProbeFrame ==
    UNCHANGED << records, vms, cache, now, cmd, arg, cmdArgs, exitCode, out, ops >>

\* while [ $attempt -lt $max_attempts ]: the next request goes out.
ProbeRequest ==
    /\ procs.pc = "while"
    /\ procs.attempt < max_attempts
    /\ procs' = [ procs EXCEPT !.pc = "curl", !.requests = @ + 1 ]
    /\ ProbeFrame

\* The loop test fails: return 1.
ProbeExhausted ==
    /\ procs.pc = "while"
    /\ ~ ( procs.attempt < max_attempts )
    /\ procs' = [ procs EXCEPT !.pc = "done", !.rc = 1 ]
    /\ ProbeFrame

\* curl -sf exits 0: return 0.
CurlSucceeds ==
    /\ procs.pc = "curl"
    /\ procs' = [ procs EXCEPT !.pc = "done", !.rc = 0 ]
    /\ ProbeFrame

\* curl -sf exits non-zero: attempt=$((attempt + 1)); sleep 2.
CurlFails ==
    /\ procs.pc = "curl"
    /\ procs' = [ procs EXCEPT !.pc = "while", !.attempt = @ + 1 ]
    /\ ProbeFrame

\* The endpoint accepts the connection and never answers: curl never exits.
CurlBlocks ==
    /\ procs.pc = "curl"
    /\ procs' = [ procs EXCEPT !.pc = "blocked" ]
    /\ ProbeFrame

NextProbe ==
    \/ ProbeRequest
    \/ ProbeExhausted
    \/ CurlSucceeds
    \/ CurlFails
    \/ CurlBlocks

\* The shell keeps running the function while it has a step to take.
SpecProbe == InitProbe /\ [][NextProbe]_vars /\ WF_vars(NextProbe)

ProbeReturned == procs.pc = "done"

\* What the loop guarantees about its requests: never more than 60; Ready
\* (status 0) right after the one request that succeeded, all before it
\* having failed; TimedOut (status 1) after exactly 60 failed requests.
ProbeBounded ==
    /\ procs.requests <= max_attempts
    /\ procs.attempt <= procs.requests
    /\ ProbeReturned /\ procs.rc = 0 => procs.requests = procs.attempt + 1
    /\ ProbeReturned /\ procs.rc = 1
         => procs.attempt = max_attempts /\ procs.requests = max_attempts
    /\ ProbeReturned => procs.rc \in { 0, 1 }

\* C23: the readiness probe always terminates, whatever the endpoint does:
\* it issues at most 60 requests, returns Ready on the first success with
\* no further request, and returns TimedOut after exactly 60 failures.
C23_ProbeAlwaysTerminates ==
    []ProbeBounded /\ <>ProbeReturned

\* What holds: the bounds on the requests in every run, and the return in
\* every run in which each request is answered.
ProbeTerminatesWhenAnswered ==
    []ProbeBounded /\ <>( ProbeReturned \/ procs.pc = "blocked" )

\* The probe returned TimedOut after its 60th failed request.
ProbeTimedOutAfterSixty ==
    ProbeReturned /\ procs.rc = 1 /\ procs.requests = max_attempts

\* ------------------------------------------------------ two-tier transfer
HasOp(log, op) == \E i \in 1..Len(log) : log[i].op = op

FailedOp(log, op) == \E i \in 1..Len(log) : log[i].op = op /\ ~ log[i].ok

\* Both tiers failed: the direct copy, then the mount or the copy from it.
BothTiersFailed(log) ==
    /\ FailedOp(log, "transfer_source")
    /\ FailedOp(log, "mount") \/ FailedOp(log, "exec_cp")

\* The two tiers as the code orders them, the exit status left open.
TwoTiers(log) ==
    /\ HasOp(log, "mount") <=> FailedOp(log, "transfer_source")
    /\ HasOp(log, "mount") => Pos(log, "transfer_source") < Pos(log, "mount")
    /\ HasOp(log, "exec_cp")
         => /\ HasOp(log, "mount") /\ ~ FailedOp(log, "mount")
            /\ Pos(log, "mount") < Pos(log, "exec_cp")

\* C24: a local or demo tree is copied directly first; the mount-and-copy
\* fallback runs exactly when the direct copy failed; when both fail the
\* start exits 1 before the remote install and writes no record.
C24_TwoTierTransfer ==
    [][ \A n \in Names :
          Ran("start", n) /\ HasOp(ops', "transfer_source")
          => /\ TwoTiers(ops')
             /\ BothTiersFailed(ops')
                  => /\ exitCode' = 1
                     /\ ~ HasOp(ops', "exec_install")
                     /\ records' = records ]_vars

\* What holds: the same with the backend's own non-zero status.
TwoTierTransferNonZero ==
    [][ \A n \in Names :
          Ran("start", n) /\ HasOp(ops', "transfer_source")
          => /\ TwoTiers(ops')
             /\ BothTiersFailed(ops')
                  => /\ exitCode' # 0
                     /\ ~ HasOp(ops', "exec_install")
                     /\ records' = records ]_vars

\* -------------------------------------------------------- cache refresh
\* The start of `n` just run got as far as ensure_cache: fresh path, valid
\* options, port free, codebase classified.
ReachedEnsureCache(n) ==
    /\ Ran("start", n) /\ FreshStart(n)
    /\ GivenOptions(cmdArgs').err = ""
    /\ HasOp(ops', "check_port_available")
    /\ ~ FailedOp(ops', "check_port_available")
    /\ ExpectedType(CodebaseArg(cmdArgs')) # ""

\* C25: ensure_cache runs the downloader exactly when the refresh is forced
\* (--no-cache), the cache directory is absent, or it has no completion
\* marker; otherwise the cache is left as it is.  A failing downloader ends
\* the start before any VM is created.
C25_EnsureCacheDownloadsWhenNeeded ==
    [][ \A n \in Names :
          ReachedEnsureCache(n)
          => /\ HasOp(ops', "download")
                  <=> \/ GivenOptions(cmdArgs').no_cache = "yes"
                      \/ cache = "absent"
                      \/ cache = "incomplete"
             /\ ~ HasOp(ops', "download") => cache' = cache
             /\ FailedOp(ops', "download")
                  => /\ exitCode' # 0
                     /\ ~ HasOp(ops', "launch")
                     /\ vms' = vms /\ records' = records ]_vars

\* A forced refresh of a complete cache whose downloader failed: the start
\* stopped there.
C25_Witness ==
    /\ cmd = "start" /\ cmdArgs = << "--no-cache" >>
    /\ cache = "complete"
    /\ FailedOp(ops, "download")
    /\ ~ HasOp(ops, "launch")

\* ------------------------------------------------------------------ list
\* C26: `list` has no precondition and is read-only: it exits 0 whatever
\* the state root holds (nothing included), prints exactly one row per
\* stored record, with the record's port and the live status of its VM
\* (unknown for a VM that no longer exists), and changes no record, VM or
\* cache.
C26_ListReadOnlyOneRowPerRecord ==
    [][ cmd' = "list"
        => /\ exitCode' = 0
           /\ UNCHANGED << records, vms, cache >>
           /\ ops' = << >>
           /\ \A i \in 1..Len(out'.rows) :
                \E n \in Names : records[n] # NoRecord /\ out'.rows[i].name = n
           /\ \A n \in Names :
                records[n] # NoRecord
                => /\ Cardinality({ i \in 1..Len(out'.rows) : out'.rows[i].name = n }) = 1
                   /\ \A i \in 1..Len(out'.rows) :
                        out'.rows[i].name = n
                        => /\ out'.rows[i].port = records[n].port
                           /\ out'.rows[i].status = StatusWord(vms[get_vm_name(n)]) ]_vars

\* `list` has printed two rows, one of them for a record whose VM is gone.
C26_Witness ==
    /\ cmd = "list" /\ exitCode = 0
    /\ Len(out.rows) = 2
    /\ \A n \in Names : records[n] # NoRecord
    /\ \E i \in 1..2 : out.rows[i].status = "unknown"
                       /\ vms[get_vm_name(out.rows[i].name)] = "Absent"
    /\ \E i \in 1..2 : out.rows[i].status = "running"

\* `list` has printed the header alone: there is no record.
ListOfNothing ==
    /\ cmd = "list" /\ exitCode = 0 /\ out.rows = << >>
    /\ \A n \in Names : records[n] = NoRecord

\* ------------------------------------- two invocations asking for one port
\* The two invocations of SpecConc, both now on the same port: each start
\* asks for RacePort and each record there is at the beginning holds it.
RacePort == "9000"

RaceInvocations ==
    { [ verb |-> "start", args |-> << "--port", RacePort >>, fails |-> f ] :
        f \in { {}, {"download"}, {"launch"} } }
    \cup { [ verb |-> "stop", args |-> << >>, fails |-> {} ],
           [ verb |-> "destroy", args |-> << >>, fails |-> {} ] }

RaceRecordIn(name, s) ==
    IF s \in { "none", "leftover" } THEN NoRecord
    ELSE save_instance_state(name, "demo", CHOOSE t \in TmpDirs : TRUE,
                             [ DefaultOptions EXCEPT !.port = RacePort ], 0)

InitRace ==
    /\ \E s \in [ Names -> InstanceStates ] :
        /\ records = [ n \in Names |-> RaceRecordIn(n, s[n]) ]
        /\ vms = [ v \in VmNames |->
                     VmIn(s[CHOOSE n \in Names : get_vm_name(n) = v]) ]
    /\ cache \in { "absent", "complete" }
    /\ now = 0
    /\ cmd = ""
    /\ arg = ""
    /\ cmdArgs = << >>
    /\ exitCode = 0
    /\ out = NoOut
    /\ ops = << >>
    /\ \E inv \in [ Procs -> RaceInvocations ] :
        procs = [ i \in Procs |-> NewProc(NameSeq[i], inv[i]) ]

SpecRace == InitRace /\ [][NextConc]_vars

\* The positions of a start between the port check and its end.
PastPortCheck == { "ensure_cache", "download", "launch", "install", "save", "wait" }

\* C27: the port check is a point-in-time read, not repeated at completion.
\* A start is refused only for a record its glob listed whose VM runs when
\* the check looks; once past the check it ends early only when a command
\* of its own fails, and its save writes the record with the port whatever
\* the other invocation has written since.  So two fresh starts on the same
\* port can both pass the check and both complete (C27_Witness).
C27_PortCheckIsPointInTime ==
    [][ \A i \in DOMAIN procs :
          procs[i].verb = "start" /\ procs'[i] # procs[i]
          => /\ procs[i].pc = "port_check" /\ procs'[i].pc = "done"
                  => \E n \in procs[i].seen \ { procs[i].name } :
                        /\ records[n] # NoRecord /\ records[n].port = RacePort
                        /\ vms[get_vm_name(n)] = "Running"
             /\ procs[i].pc = "port_check" /\ procs'[i].pc # "done"
                  => procs'[i].pc = "ensure_cache"
             /\ procs[i].pc \in PastPortCheck \ { "wait" } /\ procs'[i].pc = "done"
                  => \/ procs[i].pc = "download" /\ "download" \in procs[i].fails
                     \/ procs[i].pc = "launch"
                        /\ ( "launch" \in procs[i].fails \/ vms[ProcVm(i)] # "Absent" )
             /\ procs[i].pc = "save"
                  => /\ procs'[i].pc = "wait"
                     /\ records'[procs[i].name] # NoRecord
                     /\ records'[procs[i].name].port = RacePort ]_vars

\* Two starts on the same port that ran at the same time have both ended
\* with a running VM and a record holding the port: each listed the state
\* directory before the other wrote its record, so neither was refused.
C27_Witness ==
    /\ DOMAIN procs = Procs
    /\ \A i \in Procs :
        /\ procs[i].verb = "start" /\ procs[i].pc = "done"
        /\ procs[i].args = << "--port", RacePort >>
        /\ procs[i].overlapped
        /\ procs[i].seen = {}
        /\ records[procs[i].name] # NoRecord
        /\ records[procs[i].name].port = RacePort
        /\ vms[ProcVm(i)] = "Running"

\* --------------------------------------------- one port, one running owner
\* No two instances whose VMs both run have records with the same port.
NoSharedRunningPort(recs, v) ==
    \A m, n \in Names :
        /\ m # n
        /\ recs[m] # NoRecord /\ recs[n] # NoRecord
        /\ v[get_vm_name(m)] = "Running" /\ v[get_vm_name(n)] = "Running"
        => recs[m].port # recs[n].port

\* Every record has its VM, as after any sequence of start, stop and
\* destroy: a record is written only after the launch, stop keeps the VM,
\* destroy removes the record as well.  (A VM deleted outside the tool
\* leaves a record without one.)
RecordsHaveVm ==
    \A n \in Names : records[n] # NoRecord => vms[get_vm_name(n)] # "Absent"

\* C28: used one command at a time, start, stop and destroy keep the ports
\* of the running instances distinct: none of them leads from a state where
\* no two running instances share a recorded port to one where two do.
C28_RunningPortsDistinct ==
    [][ /\ cmd' \in { "start", "stop", "destroy" }
        /\ RecordsHaveVm
        /\ NoSharedRunningPort(records, vms)
        => NoSharedRunningPort(records', vms') ]_vars

\* The start of `n` about to run restarts a stopped instance.
RestartOf(n) ==
    records[n] # NoRecord /\ vms[get_vm_name(n)] = "Stopped"

\* What holds: stop, destroy and every start but the restart of a stopped
\* instance keep the ports of the running instances distinct.
CheckedStartKeepsPortsDistinct ==
    [][ /\ cmd' \in { "start", "stop", "destroy" }
        /\ ~ \E n \in Names : Ran("start", n) /\ RestartOf(n)
        /\ RecordsHaveVm
        /\ NoSharedRunningPort(records, vms)
        => NoSharedRunningPort(records', vms') ]_vars

\* ------------------------------------------------- the port of the URLs
\* The messages that carry the service URL http://$ip:$port/source.
UrlTexts ==
    { "Instance Ready", "Instance restarted", "Instance is already running",
      "Instance", "Opening in browser" }

\* `verb n` has just reported a service URL.
ReportedUrl(verb, n) == Ran(verb, n) /\ out'.text \in UrlTexts

\* C29: every service URL that start, info or open reports for an instance
\* carries the port stored in the instance's record; so a start on an
\* existing instance, given no --port or another one, reports the URL with
\* the port recorded at first.
C29_UrlUsesRecordedPort ==
    [][ \A n \in Names, verb \in { "start", "info", "open" } :
          ReportedUrl(verb, n)
          => /\ records'[n] # NoRecord
             /\ out'.port = records'[n].port ]_vars

\* What holds: info, open and the start that provisions report the URL with
\* the recorded port.
ProvisionedUrlUsesRecordedPort ==
    [][ \A n \in Names, verb \in { "start", "info", "open" } :
          ReportedUrl(verb, n) /\ ( verb = "start" => FreshStart(n) )
          => /\ records'[n] # NoRecord
             /\ out'.port = records'[n].port ]_vars

\* ------------------------------------------ open and reindex need a run
\* C30: `open name` and `reindex name` on an instance that has a record but
\* whose VM does not run (stopped, or gone) fail with exit code 1: no
\* browser is launched, nothing is executed in the VM, and the record and
\* the VM state stay as they were.
C30_OpenReindexNeedRunning ==
    [][ \A n \in Names, verb \in { "open", "reindex" } :
          /\ Ran(verb, n)
          /\ records[n] # NoRecord
          /\ vms[get_vm_name(n)] # "Running"
          => /\ exitCode' = 1
             /\ out'.text = "ERROR: Instance is not running"
             /\ ops' = << >>
             /\ UNCHANGED << records, vms, cache >> ]_vars

\* `open a` has been refused for a stopped instance.
C30_Witness ==
    /\ cmd = "open" /\ arg = "a"
    /\ records["a"] # NoRecord
    /\ vms[get_vm_name("a")] = "Stopped"
    /\ exitCode = 1 /\ ops = << >>

\* `reindex b` has been refused for an instance whose VM is gone.
ReindexRefusedForUnknown ==
    /\ cmd = "reindex" /\ arg = "b"
    /\ records["b"] # NoRecord
    /\ vms[get_vm_name("b")] = "Absent"
    /\ exitCode = 1 /\ ops = << >>

====
